---- MODULE Spec2Model ----
(***************************************************************************)
(* Data2Form (src/src/data2form.js): fills the controls of a form from a   *)
(* key/value data object.  The model keeps the closure state of one        *)
(* Data2Form instance (settings, callbacks), the live form it queries,     *)
(* and the position of one fill() call in its for-in loop.                 *)
(*                                                                         *)
(* Strings that the code takes apart (the values) are sequences of         *)
(* one-character strings; names and types are only compared and stay       *)
(* TLA+ strings.  A JavaScript throw is a result record with threw = TRUE. *)
(* A callback is abstracted to what fill can observe of it: which function *)
(* it is and whether it returns or throws.                                 *)
(***************************************************************************)
EXTENDS Integers, Sequences, FiniteSets

VARIABLES settings, callbacks, form, pc, data, i, result,
          errAt, console, invoked, nCalls

vars == <<settings, callbacks, form, pc, data, i, result,
          errAt, console, invoked, nCalls>>

(* ------------------------------ bounds -------------------------------- *)

\* Largest number of enumerable keys of the data object passed to fill.
MaxKeys == 2

\* Largest number of setting / callbackAfterFill calls that set the
\* instance up before fill is called (nCalls counts them while idle).
MaxCalls == 1

(* ------------------------------ strings ------------------------------- *)

Comma == ","

S_empty == <<>>
S_a == <<"a">>
S_b == <<"b">>
S_c == <<"c">>
S_ab == <<"a", ",", "b">>
S_z == <<"z">>

\* String.prototype.split(','): cuts at every comma, keeps empty pieces.
RECURSIVE SplitFrom(_, _, _)
SplitFrom(s, k, cur) ==
    IF k > Len(s) THEN <<cur>>
    ELSE IF s[k] = Comma THEN <<cur>> \o SplitFrom(s, k + 1, <<>>)
    ELSE SplitFrom(s, k + 1, Append(cur, s[k]))

split(s) == SplitFrom(s, 1, <<>>)

\* Array.prototype.includes
includes(arr, x) == \E k \in DOMAIN arr : arr[k] = x

(* ------------------------- closure state ------------------------------ *)

RecognizedSettings ==
    {"throwOnMissingField", "throwOnUnsupportedType",
     "throwOnFileError", "throwOnInvalidSelectOption"}

DefaultSettings == [k \in RecognizedSettings |-> TRUE]

supportedTypes ==
    {"checkbox", "color", "date", "email", "file", "hidden", "month",
     "number", "password", "radio", "range", "search", "tel", "text",
     "time", "url", "week", "select-one", "datetime-local"}

(* ------------------------------ the form ------------------------------ *)

Control(name, type, value, checked, options) ==
    [name |-> name, type |-> type, value |-> value,
     checked |-> checked, options |-> options]

\* The form handed to Data2Form, in document order.  "bio" is a mixed
\* group whose first control has an unsupported type; no control is
\* named "nope".
InitialForm ==
    << Control("username", "text", S_z, FALSE, <<>>),
       Control("agree", "checkbox", S_a, FALSE, <<>>),
       Control("agree", "checkbox", S_b, FALSE, <<>>),
       Control("agree", "checkbox", S_c, TRUE, <<>>),
       Control("gender", "radio", S_a, FALSE, <<>>),
       Control("gender", "radio", S_b, TRUE, <<>>),
       Control("country", "select-one", S_b, FALSE, <<S_a, S_b>>),
       Control("avatar", "file", S_empty, FALSE, <<>>),
       Control("bio", "textarea", S_z, FALSE, <<>>),
       Control("bio", "text", S_z, FALSE, <<>>) >>

\* form_element.querySelectorAll(`[name="${name}"]`): the indices of the
\* controls with that name, in document order.  The names of the model
\* contain no character that would end the quoted attribute value.
querySelectorAll(f, name) ==
    SelectSeq([k \in 1..Len(f) |-> k], LAMBDA k : f[k].name = name)

\* getInputField taking the type of the last matched control.
getInputFieldLast(f, name) ==
    LET fields == querySelectorAll(f, name)
    IN  IF Len(fields) < 1
        THEN [exists |-> FALSE]
        ELSE [exists |-> TRUE, type |-> f[fields[Len(fields)]].type,
              nodes |-> fields]

\* getInputField(name): the type is that of the first matched control.
getInputField(f, name) ==
    LET fields == querySelectorAll(f, name)
    IN  IF Len(fields) < 1
        THEN [exists |-> FALSE]
        ELSE [exists |-> TRUE, type |-> f[fields[1]].type, nodes |-> fields]

(* --------------------------- fill strategies -------------------------- *)

Err(kind, name) == [kind |-> kind, name |-> name]

NoError == Err("none", "")

\* A strategy that returns `filled`, leaving the form as f.
Return(filled, f) ==
    [threw |-> FALSE, filled |-> filled, error |-> NoError, form |-> f]

\* A strategy that throws `error`.
Throw(error, f) ==
    [threw |-> TRUE, filled |-> FALSE, error |-> error, form |-> f]

fillFile(f, n, value, s) ==
    IF value # S_empty
    THEN IF s["throwOnFileError"]
         THEN Throw(Err("FileError", f[n].name), f)
         ELSE Return(FALSE, f)
    ELSE Return(TRUE, f)

\* The loop of fillCheckbox if it only ever set checked to true.
RECURSIVE CheckboxLoopOnlyChecks(_, _, _, _, _)
CheckboxLoopOnlyChecks(f, fields, k, values, filledAny) ==
    IF k > Len(fields) THEN Return(filledAny, f)
    ELSE LET checked == includes(values, f[fields[k]].value)
         IN  CheckboxLoopOnlyChecks(
                 IF checked THEN [f EXCEPT ![fields[k]].checked = TRUE] ELSE f,
                 fields, k + 1, values, filledAny \/ checked)

\* The loop of fillCheckbox from its k-th field on.
RECURSIVE CheckboxLoop(_, _, _, _, _)
CheckboxLoop(f, fields, k, values, filledAny) ==
    IF k > Len(fields) THEN Return(filledAny, f)
    ELSE LET checked == includes(values, f[fields[k]].value)
         IN  CheckboxLoop([f EXCEPT ![fields[k]].checked = checked],
                          fields, k + 1, values, filledAny \/ checked)

fillCheckbox(f, fields, values) ==
    CheckboxLoop(f, fields, 1, split(values), FALSE)

\* The loop of fillRadio from its k-th field on.
RECURSIVE RadioLoop(_, _, _, _, _)
RadioLoop(f, fields, k, value, filledAny) ==
    IF k > Len(fields) THEN Return(filledAny, f)
    ELSE LET checked == (value = f[fields[k]].value)
         IN  RadioLoop([f EXCEPT ![fields[k]].checked = checked],
                       fields, k + 1, value, filledAny \/ checked)

fillRadio(f, fields, value) == RadioLoop(f, fields, 1, value, FALSE)

fillField(f, n, value) == Return(TRUE, [f EXCEPT ![n].value = value])

\* What evaluating the template literal of fillSelect's throw produces.
\* `key` is not a variable of fillSelect's scope: the read is a
\* ReferenceError unless the page defines a global of that name, in which
\* case the message carries that global and not the field's name.
GlobalKeyStates == {"undefined", "defined"}

SelectThrown(gk) ==
    IF gk = "undefined"
    THEN Err("ReferenceError", "key")
    ELSE Err("InvalidSelectOption", "<global key>")

\* The change event triggered through jQuery after the assignment goes to
\* listeners outside the instance and leaves no trace in its state.
fillSelect(f, n, value, s, gk) ==
    LET optionExists == \E k \in DOMAIN f[n].options : f[n].options[k] = value
    IN  IF ~optionExists
        THEN IF s["throwOnInvalidSelectOption"]
             THEN Throw(SelectThrown(gk), f)
             ELSE Return(FALSE, f)
        ELSE Return(TRUE, [f EXCEPT ![n].value = value])

(* ------------------------------ fill ---------------------------------- *)

\* The push without the assignment to success.
FailedKeepsSuccess(res, error) ==
    [res EXCEPT !.errors = Append(res.errors, error)]

\* The error put in front of result.errors instead of pushed.
FailedPrepends(res, error) ==
    [success |-> FALSE, errors |-> <<error>> \o res.errors]

\* result.success = false; result.errors.push(error)
Failed(res, error) ==
    [success |-> FALSE, errors |-> Append(res.errors, error)]

\* if (settings[name]) console.error(error)
Surface(con, s, name, error) ==
    IF s[name] THEN Append(con, error) ELSE con

\* What one pass through the loop body leaves behind.
Outcome(f, res, con, calls, abort) ==
    [form |-> f, result |-> res, console |-> con, calls |-> calls,
     abort |-> abort]

\* The registered callbacks: "f" returns, "g" throws.
Functions == {"f", "g"}

Throws(fn) == fn = "g"

\* The switch on input.type.
Dispatch(f, s, gk, input, value) ==
    CASE input.type = "file" -> fillFile(f, input.nodes[1], value, s)
      [] input.type = "checkbox" -> fillCheckbox(f, input.nodes, value)
      [] input.type = "radio" -> fillRadio(f, input.nodes, value)
      [] input.type = "select-one" ->
             fillSelect(f, input.nodes[1], value, s, gk)
      [] OTHER -> fillField(f, input.nodes[1], value)

\* One call of a callback: callbacks[input.type](input.nodes[0], data[key]).
Call(fn, n, value) == [fn |-> fn, node |-> n, value |-> value]

\* The callback called whether or not the strategy reported filled.
AfterFillAlways(r, cbs, input, value) ==
    IF input.type \in DOMAIN cbs
    THEN [threw |-> Throws(cbs[input.type]),
          error |-> IF Throws(cbs[input.type])
                    THEN Err("CallbackError", cbs[input.type]) ELSE NoError,
          fromCallback |-> Throws(cbs[input.type]),
          calls |-> <<Call(cbs[input.type], input.nodes[1], value)>>]
    ELSE [threw |-> FALSE, error |-> NoError, fromCallback |-> FALSE,
          calls |-> <<>>]

\* if (filled && callbacks[input.type]) callbacks[input.type](...)
AfterFill(r, cbs, input, value) ==
    IF r.filled /\ input.type \in DOMAIN cbs
    THEN [threw |-> Throws(cbs[input.type]),
          error |-> IF Throws(cbs[input.type])
                    THEN Err("CallbackError", cbs[input.type]) ELSE NoError,
          fromCallback |-> Throws(cbs[input.type]),
          calls |-> <<Call(cbs[input.type], input.nodes[1], value)>>]
    ELSE [threw |-> FALSE, error |-> NoError, fromCallback |-> FALSE,
          calls |-> <<>>]

\* The try block: the switch, then the callback; a throw of the switch
\* skips the callback.
TryBlock(f, s, cbs, gk, input, value) ==
    LET r == Dispatch(f, s, gk, input, value)
        c == AfterFill(r, cbs, input, value)
    IN  IF r.threw
        THEN [threw |-> TRUE, error |-> r.error, fromCallback |-> FALSE,
              form |-> r.form, calls |-> <<>>]
        ELSE [threw |-> c.threw, error |-> c.error,
              fromCallback |-> c.fromCallback,
              form |-> r.form, calls |-> c.calls]

\* The callback called after the try statement rather than inside it.
TryCatchCallbackEscapes(f, s, cbs, gk, res, con, input, value) ==
    LET t == TryBlock(f, s, cbs, gk, input, value)
    IN  IF t.threw /\ t.fromCallback
        THEN Outcome(t.form, res, con, t.calls, TRUE)
        ELSE IF t.threw
        THEN Outcome(t.form, Failed(res, t.error), Append(con, t.error),
                     t.calls, FALSE)
        ELSE Outcome(t.form, res, con, t.calls, FALSE)

\* try { ... } catch (error) { push, success = false, console.error }
TryCatch(f, s, cbs, gk, res, con, input, value) ==
    LET t == TryBlock(f, s, cbs, gk, input, value)
    IN  IF t.threw
        THEN Outcome(t.form, Failed(res, t.error), Append(con, t.error),
                     t.calls, FALSE)
        ELSE Outcome(t.form, res, con, t.calls, FALSE)

\* The loop body if throwOnMissingField made a missing field throw.
LoopBodyThrowsOnMissing(f, s, cbs, gk, res, con, key, value) ==
    LET input == getInputField(f, key)
    IN  IF ~input.exists /\ s["throwOnMissingField"]
        THEN Outcome(f, Failed(res, Err("MissingField", key)),
                     Append(con, Err("MissingField", key)), <<>>, TRUE)
        ELSE IF ~input.exists
        THEN Outcome(f, Failed(res, Err("MissingField", key)), con,
                     <<>>, FALSE)
        ELSE IF input.type \notin supportedTypes
        THEN Outcome(f, Failed(res, Err("UnsupportedType", key)),
                     Surface(con, s, "throwOnUnsupportedType",
                             Err("UnsupportedType", key)),
                     <<>>, FALSE)
        ELSE TryCatch(f, s, cbs, gk, res, con, input, value)

\* The body of the for-in loop for one owned key.
LoopBody(f, s, cbs, gk, res, con, key, value) ==
    LET input == getInputField(f, key)
    IN  IF ~input.exists
        THEN Outcome(f, Failed(res, Err("MissingField", key)),
                     Surface(con, s, "throwOnMissingField",
                             Err("MissingField", key)),
                     <<>>, FALSE)
        ELSE IF input.type \notin supportedTypes
        THEN Outcome(f, Failed(res, Err("UnsupportedType", key)),
                     Surface(con, s, "throwOnUnsupportedType",
                             Err("UnsupportedType", key)),
                     <<>>, FALSE)
        ELSE TryCatch(f, s, cbs, gk, res, con, input, value)

(* ------------------------- inputs of the calls ------------------------ *)

\* Keys passed to setting: the recognized ones, the alias and a key the
\* code does not know.
SettingKeys == RecognizedSettings \cup {"strict", "verbose"}

\* Types passed to callbackAfterFill.
CallbackTypes == {"text", "checkbox"}

\* Second arguments of callbackAfterFill: functions and a non-function.
CallbackArgs == Functions \cup {"not a function"}

\* One enumerable property of the data object; own = FALSE for a property
\* inherited from the prototype chain.
Entry(key, value, own) == [key |-> key, value |-> value, own |-> own]

\* Own properties: for each field of the form the values that take each
\* branch of its strategy, a key of an unsupported field and a key that
\* names no field.
OwnEntries ==
    {Entry("username", S_a, TRUE),
     Entry("agree", S_ab, TRUE), Entry("agree", S_z, TRUE),
     Entry("gender", S_a, TRUE), Entry("gender", S_z, TRUE),
     Entry("country", S_a, TRUE), Entry("country", S_z, TRUE),
     Entry("avatar", S_empty, TRUE), Entry("avatar", S_a, TRUE),
     Entry("bio", S_a, TRUE),
     Entry("nope", S_a, TRUE)}

\* An enumerable property of the prototype, named like a field.
InheritedEntries == {Entry("username", S_b, FALSE)}

Entries == OwnEntries \cup InheritedEntries

\* The data objects, as the sequence for-in enumerates: distinct keys,
\* own properties before inherited ones.
DataObjects ==
    UNION {{d \in [1..n -> Entries] :
              /\ \A j, k \in 1..n : j # k => d[j].key # d[k].key
              /\ \A j, k \in 1..n : (j < k /\ d[k].own) => d[j].own}
           : n \in 0..MaxKeys}

NewResult == [success |-> TRUE, errors |-> <<>>]

(* ------------------------------ actions ------------------------------- *)

Init ==
    /\ settings = DefaultSettings
    /\ callbacks = <<>>
    /\ form = InitialForm
    /\ pc = "idle"
    /\ data = <<>>
    /\ i = 1
    /\ result = NewResult
    /\ errAt = <<>>
    /\ console = <<>>
    /\ invoked = <<>>
    /\ nCalls = 0

\* setting without the loop over the keys of settings.
settingNoLoop(s, key, value) ==
    [k \in DOMAIN s \cup {key} |-> IF k = key THEN value ELSE s[k]]

\* setting(key, value) applied to the settings object s.
setting(s, key, value) ==
    LET s1 == IF key = "strict" THEN [k \in DOMAIN s |-> value] ELSE s
    IN  [k \in DOMAIN s1 \cup {key} |-> IF k = key THEN value ELSE s1[k]]

Setting(key, value) ==
    /\ pc = "idle"
    /\ nCalls < MaxCalls
    /\ settings' = setting(settings, key, value)
    /\ nCalls' = nCalls + 1
    /\ UNCHANGED <<callbacks, form, pc, data, i, result, errAt,
                   console, invoked>>

\* callbackAfterFill(type, fn) applied to the callbacks object; a
\* non-function throws and registers nothing.
callbackAfterFill(cbs, type, fn) ==
    IF fn \in Functions
    THEN [t \in DOMAIN cbs \cup {type} |-> IF t = type THEN fn ELSE cbs[t]]
    ELSE cbs

CallbackAfterFill(type, fn) ==
    /\ pc = "idle"
    /\ nCalls < MaxCalls
    /\ callbacks' = callbackAfterFill(callbacks, type, fn)
    /\ nCalls' = nCalls + 1
    /\ UNCHANGED <<settings, form, pc, data, i, result, errAt,
                   console, invoked>>

\* fill(data) is entered: a fresh result, the loop at its first key.
Fill(d) ==
    /\ pc = "idle"
    /\ data' = d
    /\ i' = 1
    /\ result' = NewResult
    /\ pc' = "filling"
    /\ nCalls' = 0   \* the set-up phase is over
    /\ UNCHANGED <<settings, callbacks, form, errAt, console, invoked>>

\* One iteration of the for-in loop of fill.
FillKey ==
    /\ pc = "filling"
    /\ i <= Len(data)
    /\ IF ~data[i].own
       THEN /\ i' = i + 1
            /\ UNCHANGED <<form, result, errAt, console, invoked,
                           pc>>
       ELSE \E gk \in GlobalKeyStates :
              LET o == LoopBody(form, settings, callbacks, gk,
                                result, console, data[i].key, data[i].value)
              IN  /\ form' = o.form
                  /\ result' = o.result
                  /\ console' = o.console
                  /\ invoked' = invoked \o
                         [k \in DOMAIN o.calls |->
                            [call |-> o.calls[k], at |-> i]]
                  /\ errAt' = errAt \o
                         [k \in 1..(Len(o.result.errors) - Len(result.errors))
                            |-> i]
                  /\ IF o.abort
                     THEN pc' = "threw" /\ i' = i
                     ELSE pc' = pc /\ i' = i + 1
    /\ UNCHANGED <<settings, callbacks, data, nCalls>>

\* return result
FillReturn ==
    /\ pc = "filling"
    /\ i > Len(data)
    /\ pc' = "returned"
    /\ UNCHANGED <<settings, callbacks, form, data, i, result,
                   errAt, console, invoked, nCalls>>

Next ==
    \/ \E key \in SettingKeys, value \in BOOLEAN : Setting(key, value)
    \/ \E type \in CallbackTypes, fn \in CallbackArgs :
          CallbackAfterFill(type, fn)
    \/ \E d \in DataObjects : Fill(d)
    \/ FillKey
    \/ FillReturn

Spec == Init /\ [][Next]_vars

\* setting called any number of times on an idle instance.
SettingAgain(key, value) ==
    /\ pc = "idle"
    /\ settings' = setting(settings, key, value)
    /\ UNCHANGED <<callbacks, form, pc, data, i, result, errAt, console,
                   invoked, nCalls>>

NextSettings ==
    \E key \in SettingKeys, value \in BOOLEAN : SettingAgain(key, value)

SpecSettings == Init /\ [][NextSettings]_vars

(* ------------------------ vocabulary of the claims -------------------- *)

\* The controls named `name`, read off the form directly.
Group(name) == {k \in DOMAIN form : form[k].name = name}

FirstOf(name) == CHOOSE k \in Group(name) : \A m \in Group(name) : k <= m

Missing(name) == Group(name) = {}

Unsupported(name) ==
    ~Missing(name) /\ form[FirstOf(name)].type \notin supportedTypes

TypeOf(name) == form[FirstOf(name)].type

\* The positions of result.errors pushed while the j-th key was processed.
ErrorsAt(j) == {k \in DOMAIN errAt : errAt[k] = j}

\* The comma-free pieces of s that are bounded by commas or the ends of s.
Pieces(s) ==
    {SubSeq(s, a, b) : <<a, b>> \in
        {ab \in (1..Len(s) + 1) \X (0..Len(s)) :
            /\ ab[1] <= ab[2] + 1
            /\ \A m \in ab[1]..ab[2] : s[m] # Comma
            /\ (ab[1] = 1 \/ s[ab[1] - 1] = Comma)
            /\ (ab[2] = Len(s) \/ s[ab[2] + 1] = Comma)}}

\* The step is the loop body run for an owned key.
OwnKeyStep == pc = "filling" /\ i <= Len(data) /\ data[i].own /\ i' # i

(* ------------------------------- C1 ----------------------------------- *)

\* C1: the result fill returns has success = TRUE exactly when its errors
\* are empty, for every data object and every settings configuration.
C1_SuccessIffNoErrors ==
    pc = "returned" => (result.success <=> Len(result.errors) = 0)

C1_Witness ==
    /\ pc = "returned"
    /\ ~result.success
    /\ Len(result.errors) > 0
    /\ \E k \in RecognizedSettings : ~settings[k]

(* ------------------------------- C2 ----------------------------------- *)

\* C2: a file field filled with the empty string records no error; filled
\* with a non-empty value it records a FileError and success is false,
\* whatever throwOnFileError is.
C2_FileErrorAlwaysRecorded ==
    pc = "returned" =>
        \A j \in DOMAIN data :
            (data[j].own /\ ~Missing(data[j].key)
                /\ TypeOf(data[j].key) = "file") =>
                IF data[j].value = S_empty
                THEN ErrorsAt(j) = {}
                ELSE /\ ~result.success
                     /\ \E k \in ErrorsAt(j) :
                           result.errors[k] = Err("FileError", data[j].key)

(* ------------------------------- C3 ----------------------------------- *)

\* C3: a select-one field filled with a value that is none of its options
\* leaves success false and an error for the invalid option in
\* result.errors under both values of throwOnInvalidSelectOption; the
\* error is on the console exactly when the setting is true.
C3_InvalidOptionAlwaysRecorded ==
    pc = "returned" =>
        \A j \in DOMAIN data :
            (/\ data[j].own /\ ~Missing(data[j].key)
             /\ TypeOf(data[j].key) = "select-one"
             /\ \A m \in DOMAIN form[FirstOf(data[j].key)].options :
                    form[FirstOf(data[j].key)].options[m] # data[j].value) =>
                /\ ~result.success
                /\ \E k \in ErrorsAt(j) :
                      /\ result.errors[k] \in
                            {SelectThrown(gk) : gk \in GlobalKeyStates}
                      /\ settings["throwOnInvalidSelectOption"] <=>
                            (\E m \in DOMAIN console :
                                console[m] = result.errors[k])

(* ------------------------------- C4 ----------------------------------- *)

\* The calls of a callback that threw.
ThrownCalls == {k \in DOMAIN invoked : Throws(invoked[k].call.fn)}

\* C4 as stated: an exception of a callback is not caught by fill; it
\* reaches the caller of fill and is not appended to result.errors.
C4_CallbackExceptionPropagates ==
    \A k \in ThrownCalls : pc = "threw" /\ ErrorsAt(invoked[k].at) = {}

\* C4 as amended: an exception of a callback is caught by fill: it is
\* appended to result.errors once, marks the result failed, is written to
\* the console, and fill goes on to the next key instead of throwing.
C4_CallbackExceptionCaught ==
    /\ pc # "threw"
    /\ \A k \in ThrownCalls :
          /\ ~result.success
          /\ Cardinality(ErrorsAt(invoked[k].at)) = 1
          /\ \A m \in ErrorsAt(invoked[k].at) :
                /\ result.errors[m] = Err("CallbackError", invoked[k].call.fn)
                /\ \E n \in DOMAIN console : console[n] = result.errors[m]
          /\ i > invoked[k].at

C4_Witness ==
    /\ pc = "returned"
    /\ ThrownCalls # {}
    /\ \E k \in ThrownCalls : invoked[k].at < Len(data)

(* ------------------------------- C5 ----------------------------------- *)

\* What the j-th key of data, an owned one, has left behind once fill has
\* gone past it: an error for a key it rejects, the value in the control
\* or the checked states of the group for a key it fills.  Keys are
\* distinct, so no other key writes the same controls.
Processed(j) ==
    LET key == data[j].key
        value == data[j].value
    IN  IF Missing(key) \/ Unsupported(key)
        THEN ErrorsAt(j) # {}
        ELSE CASE TypeOf(key) = "file" ->
                    (value # S_empty /\ settings["throwOnFileError"])
                        => ErrorsAt(j) # {}
               [] TypeOf(key) = "checkbox" ->
                    \A k \in Group(key) :
                        form[k].checked <=> form[k].value \in Pieces(value)
               [] TypeOf(key) = "radio" ->
                    \A k \in Group(key) :
                        form[k].checked <=> form[k].value = value
               [] TypeOf(key) = "select-one" ->
                    IF \E m \in DOMAIN form[FirstOf(key)].options :
                           form[FirstOf(key)].options[m] = value
                    THEN form[FirstOf(key)].value = value
                    ELSE settings["throwOnInvalidSelectOption"]
                             => ErrorsAt(j) # {}
               [] OTHER -> form[FirstOf(key)].value = value

C6_RejectedKeyTouchesNothing ==
    [][(OwnKeyStep /\ (Missing(data[i].key) \/ Unsupported(data[i].key))) =>
          /\ form' = form
          /\ invoked' = invoked
          /\ result'.errors =
                Append(result.errors,
                       Err(IF Missing(data[i].key) THEN "MissingField"
                           ELSE "UnsupportedType", data[i].key))]_vars

C6_Witness ==
    /\ pc = "returned"
    /\ form = InitialForm
    /\ invoked = <<>>
    /\ result.errors = <<Err("UnsupportedType", "bio"),
                         Err("MissingField", "nope")>>

(* ------------------------------- C7 ----------------------------------- *)

\* C7: after setting('strict', v), whatever calls of setting came before,
\* the four recognized settings all read v.
C7_StrictSetsAll ==
    [][\A v \in BOOLEAN :
          (settings' = setting(settings, "strict", v)) =>
              \A k \in RecognizedSettings : settings'[k] = v]_vars

C7_Witness ==
    /\ "strict" \in DOMAIN settings
    /\ "verbose" \in DOMAIN settings
    /\ ~settings["strict"]
    /\ \A k \in RecognizedSettings : ~settings[k]

(* ------------------------------- C8 ----------------------------------- *)

\* Whether the strategy for the field `key` reports filled, read off the
\* form after the step.
ReportsFilled(key, value) ==
    CASE TypeOf(key) = "file" -> value = S_empty
      [] TypeOf(key) \in {"checkbox", "radio"} ->
             \E k \in Group(key) : form'[k].checked
      [] TypeOf(key) = "select-one" ->
             \E m \in DOMAIN form[FirstOf(key)].options :
                 form[FirstOf(key)].options[m] = value
      [] OTHER -> TRUE

CheckboxStep ==
    /\ OwnKeyStep
    /\ ~Missing(data[i].key)
    /\ TypeOf(data[i].key) = "checkbox"

\* C9: a checkbox fill splits the value on commas and sets every control
\* of the group checked exactly when its own value is one of the pieces;
\* it reports filled (the callback runs) exactly when a control ends up
\* checked, and when none does it records no error and leaves success.
C9_CheckboxMatchesPieces ==
    [][CheckboxStep =>
          /\ \A k \in Group(data[i].key) :
                form'[k].checked <=> form[k].value \in Pieces(data[i].value)
          /\ \A k \in DOMAIN form \ Group(data[i].key) : form'[k] = form[k]
          /\ (\A k \in Group(data[i].key) : ~form'[k].checked) =>
                (result' = result /\ invoked' = invoked)
          /\ ((\E k \in Group(data[i].key) : form'[k].checked)
               /\ "checkbox" \in DOMAIN callbacks) =>
                Len(invoked') = Len(invoked) + 1]_vars

C9_Witness ==
    /\ pc = "returned"
    /\ \E j \in DOMAIN data :
          data[j] = Entry("agree", S_ab, TRUE)
    /\ form[2].checked /\ form[3].checked /\ ~form[4].checked
    /\ InitialForm[4].checked
    /\ result.success

(* ------------------------------- C10 ---------------------------------- *)

\* Errors whose text names the field they are about.
NamesField(e) == e.kind \in {"MissingField", "UnsupportedType", "FileError"}

\* C10: fill processes the keys in the data object's iteration order and
\* result.errors keeps that order: an error of an earlier key precedes
\* an error of a later key.
C10_ErrorsInKeyOrder ==
    /\ Len(errAt) = Len(result.errors)
    /\ \A j, k \in DOMAIN errAt : j < k => errAt[j] < errAt[k]
    /\ \A k \in DOMAIN errAt :
          /\ errAt[k] \in DOMAIN data
          /\ pc = "filling" => errAt[k] < i
          /\ NamesField(result.errors[k]) =>
                result.errors[k].name = data[errAt[k]].key

C10_Witness ==
    /\ pc = "returned"
    /\ Len(result.errors) = 2
    /\ result.errors[1] = Err("MissingField", data[1].key)
    /\ result.errors[2] = Err("FileError", data[2].key)

====
